---- MODULE Spec2Model ----
(***************************************************************************)
(* Model of jpl_ta1: the retry decorator (utils/decorators.py), the        *)
(* LwllApiHandler request client (api_handler.py), the Session protocol    *)
(* engine (session.py), the ModelWrapper preconditions (model_wrapper.py)  *)
(* and the Workflow loops that create sessions (workflow.py).              *)
(*                                                                         *)
(* The remote service is the environment: every HTTP attempt either gets a *)
(* response drawn from a small set or raises a transport exception.        *)
(***************************************************************************)
EXTENDS Integers, Sequences, FiniteSets, TLC

(* ------------------------------------------------------------------ *)
(* Bounds of the environment's data                                    *)
(* ------------------------------------------------------------------ *)
\* largest budget_left_until_checkpoint the service reports
MaxBudget == 1
\* most label records in one 'Labels' list
MaxLabels == 2
\* the longest sequence of calls made on one ModelWrapper object
MaxCalls == 4

\* a new call is made while the calls that have ended had fewer transient
\* failures than this
MaxFailures == 6

\* requests sent while two sessions run concurrently
MaxRequests == 4

(* ------------------------------------------------------------------ *)
(* utils/decorators.py: retry(ExceptionToCheck, tries, delay, backoff) *)
(* ------------------------------------------------------------------ *)
tries == 4
delay == 3
backoff == 2

\* a mutant of ExceptionToCheck: @retry(Exception) catches every error
ExceptionToCheckAny ==
    {"ConnectionError", "Timeout", "KeyError", "received an empty response from api"}

\* @retry((ConnectionError, Timeout))
ExceptionToCheck == {"ConnectionError", "Timeout"}

\* the remote operations of LwllApiHandler
Ops == {"get_all_tasks", "get_task_metadata", "start_session", "get_session_metadata",
        "get_seed_labels", "submit_predictions", "request_labels"}

\* operations whose requests are built from _get_session_headers(session_token)
SessionOps == {"get_session_metadata", "get_seed_labels", "submit_predictions", "request_labels"}
NonSessionOps == Ops \ SessionOps

\* a mutant of Retried: the decorator of get_seed_labels left in place
RetriedAll(op) == TRUE

\* the operations that carry the @retry decorator; the one on get_seed_labels
\* is commented out
Retried(op) == op # "get_seed_labels"

\* a mutant of range_lim: four checkpoints whatever the problem type
range_lim_four(pt) == 4

\* a mutant of ErrorMessage: 'Error' is preferred to 'trace'
ErrorMessageErrorFirst(resp) ==
    IF resp.Error # "absent" THEN resp.Error
    ELSE IF resp.trace # "absent" THEN resp.trace
    ELSE "unknown error"

\* f_retry line 59: mtries, mdelay = tries, delay
NewFrame(op) ==
    [op |-> op, mtries |-> tries, mdelay |-> delay, attempts |-> 0,
     sleeps |-> <<>>, status |-> "running", exc |-> ""]

\* a mutant of AfterFailure: the delay is not multiplied
AfterFailureNoBackoff(f) ==
    [f EXCEPT !.attempts = @ + 1, !.sleeps = Append(@, f.mdelay), !.mtries = @ - 1]

\* a mutant of AfterFailure: the number of tries left is not counted down
AfterFailureNoCountdown(f) ==
    [f EXCEPT !.attempts = @ + 1,
              !.sleeps = Append(@, f.mdelay),
              !.mdelay = @ * backoff]

\* f_retry lines 63-68: the except clause of one failed attempt inside the loop
AfterFailure(f) ==
    [f EXCEPT !.attempts = @ + 1,
              !.sleeps = Append(@, f.mdelay),
              !.mtries = @ - 1,
              !.mdelay = @ * backoff]

\* a mutant of InLoop: the loop runs once more before the last attempt
InLoopZero(f) == f.mtries > 0

\* f_retry line 60: while mtries > 1 (the attempt runs inside the try)
InLoop(f) == f.mtries > 1

(* ------------------------------------------------------------------ *)
(* api_handler.py: headers                                             *)
(* ------------------------------------------------------------------ *)
team_secret == "secret"

\* LwllApiHandler.__init__: self.non_session_headers = {'user_secret': team_secret}
InitHeaders == [user_secret |-> team_secret]

\* a mutant of get_session_headers: the dict holds the token alone
get_session_headers_token_only(h, tok) == [session_token |-> tok]

\* _get_session_headers: _headers = self.non_session_headers (the same dict);
\* _headers['session_token'] = session_token.  The value is the dict after the call.
get_session_headers(h, tok) ==
    [k \in DOMAIN h \cup {"session_token"} |->
        IF k = "session_token" THEN tok ELSE h[k]]

\* response.get('trace', response.get('Error', 'unknown error')); a key that
\* the response lacks is "absent"
ErrorMessage(resp) ==
    IF resp.trace # "absent" THEN resp.trace
    ELSE IF resp.Error # "absent" THEN resp.Error
    ELSE "unknown error"

(* ------------------------------------------------------------------ *)
(* The remote service                                                   *)
(* ------------------------------------------------------------------ *)
\* the task ids /list_tasks returns, and each task's problem_type
ServerTasks == <<"t1", "t2">>
ProblemTypeOf(t) == IF t = "t1" THEN "image_classification" ELSE "machine_translation"

\* current_dataset of a session status: "{}" is a response with an empty mapping
Datasets == {"{}", "mnist"}

\* date_last_interacted of a session status: two timestamps
Dates == {0, 1}

\* the Session_Status payloads of /session_status
MetadataResponses ==
    [active : {"Active", "Complete"},
     pair_stage : {"base", "adaptation"},
     budget_left_until_checkpoint : 0..MaxBudget,
     date_last_interacted : Dates,
     current_dataset : Datasets]

\* the /seed_labels payloads: status code, 'Labels' present, 'trace', 'Error'
SeedResponses ==
    [status : {200, 500}, has_labels : BOOLEAN,
     trace : {"absent", "trace text"}, Error : {"absent", "error text"}]

(* ------------------------------------------------------------------ *)
(* main.py / workflow.py: configuration and the order of sessions      *)
(* ------------------------------------------------------------------ *)
\* CLI.launch_system: valid_dataset_types, valid_problem_types; task_id or None
DatasetTypes == {"sample", "full", "all"}
ProblemTypes == <<"image_classification", "object_detection",
                  "machine_translation", "video_classification">>
ValidProblemTypes == {ProblemTypes[n] : n \in 1..Len(ProblemTypes)} \cup {"all"}
TaskIds == {"None", "t1", "t2"}

\* the command lines explored: every problem type over both dataset
\* configurations; the id of the image_classification task on 'sample'; the
\* id of the machine_translation task with problem type 'all' on 'full'; a
\* problem type that no task has
Configs ==
    {[dataset_type |-> "all", problem_type |-> "all", task_id |-> "None"],
     [dataset_type |-> "sample", problem_type |-> "image_classification", task_id |-> "t1"],
     [dataset_type |-> "full", problem_type |-> "all", task_id |-> "t2"],
     [dataset_type |-> "full", problem_type |-> "object_detection", task_id |-> "None"]}

VARIABLES
    cfg,                   \* Workflow arguments: dataset_type, problem_type, task_id
    task_list,             \* Workflow.task_list
    tasks,                 \* Workflow.tasks: problem type -> task ids
    ti, tk,                \* Workflow.__init__: subset type and task being fetched
    wf_k,                  \* index of the running session in the workflow's order
    tasks_completed,       \* Workflow._tasks_completed
    task_types_completed,  \* Workflow._task_types_completed
    pc,                    \* the call the program is at
    err,                   \* the exception that ended the program, "" if none
    non_session_headers,   \* LwllApiHandler.non_session_headers
    fr,                    \* f_retry's locals for the current / last call
    req,                   \* the last HTTP request sent and how it ended
    issued,                \* number of session tokens the service has issued
    problem_type,          \* Session.problem_type ("None": not given)
    session_token,         \* Session.session_token (0: not assigned)
    metadata,              \* Session.metadata
    stage, i,              \* Session.run: loop variables
    pair_stage,            \* ModelWrapper.pair_stage
    dataset_metadata,      \* ModelWrapper.dataset_metadata
    seeds, cps,            \* seed rounds / checkpoints completed in this stage
    stage_log,             \* per finished stage: <<stage, seeds, cps>>
    raised_from,           \* the /seed_labels response an exception was built from
    set_stage_calls,       \* the stages model.set_stage was called with, in order
    reported,              \* a snapshot fetched in this session had pair_stage 'adaptation'
    seed_log,              \* calls of the current / last seed round that returned
    submitted,             \* submit_predictions calls of this session that returned
    \* two sessions running concurrently (not done by Workflow):
    c_shared,              \* both sessions were given the same LwllApiHandler
    c_headers,             \* handler -> its non_session_headers
    c_pc,                  \* session -> "idle" or "built" (headers built, not sent)
    c_op,                  \* session -> the method it is in
    c_sent,                \* session -> the last request it sent
    c_count,               \* requests sent so far
    \* Session._refresh_metadata on its own:
    r_has,                 \* hasattr(self, "metadata")
    r_metadata,            \* self.metadata, as the caller stored it
    r_prev,                \* self.metadata before the last call
    r_prev_response,       \* the Session_Status the call before the last received
    r_response,            \* the Session_Status the last call received
    r_signals,             \* 'did not change' messages the last call logged
    r_exc,                 \* the exception the last call raised, "" if none
    \* Session.label_cache and the label rounds on their own:
    label_cache,           \* Session.label_cache: item id -> label
    lc_received,           \* item id -> the label last received for it
    lc_labels,             \* the list the last round passed to _add_to_label_cache
    lc_seed_round,         \* the last round's seed_round argument
    \* a ModelWrapper object on its own:
    mw_pair_stage,         \* ModelWrapper.pair_stage
    mw_dataset_metadata,   \* ModelWrapper.dataset_metadata
    mw_calls,              \* the methods called on the object, in order
    mw_exc,                \* what the last fit raised: "" if it returned, "none" before any fit
    \* calls of the wrapped methods of one handler on their own:
    rt_failures            \* transient failures of the calls that have ended

vars == <<cfg, task_list, tasks, ti, tk, wf_k, tasks_completed, task_types_completed,
          pc, err, non_session_headers, fr, req, issued, problem_type, session_token,
          metadata,
          stage, i, pair_stage, dataset_metadata, seeds, cps, stage_log, raised_from,
          set_stage_calls, reported, seed_log, submitted,
          c_shared, c_headers, c_pc, c_op, c_sent, c_count,
          r_has, r_metadata, r_prev, r_prev_response, r_response, r_signals, r_exc,
          label_cache, lc_received, lc_labels, lc_seed_round,
          mw_pair_stage, mw_dataset_metadata, mw_calls, mw_exc, rt_failures>>

refreshVars == <<r_has, r_metadata, r_prev, r_prev_response, r_response, r_signals, r_exc>>
cacheVars == <<label_cache, lc_received, lc_labels, lc_seed_round>>
wrapperVars == <<mw_pair_stage, mw_dataset_metadata, mw_calls, mw_exc>>
retryVars == <<rt_failures>>

concVars == <<c_shared, c_headers, c_pc, c_op, c_sent, c_count>>

wfVars == <<cfg, concVars, refreshVars, cacheVars, wrapperVars, retryVars, task_list, tasks, ti, tk, wf_k, tasks_completed, task_types_completed>>
sessCore == <<problem_type, session_token, metadata, stage, i, pair_stage, dataset_metadata,
              seeds, cps, stage_log, raised_from, set_stage_calls, reported>>
sessVars == <<sessCore, seed_log, submitted>>

\* Session has no attribute metadata yet (hasattr(self, "metadata") is false)
NoMetadata ==
    [active |-> "unset", pair_stage |-> "unset", budget_left_until_checkpoint |-> 0,
     date_last_interacted |-> 0, current_dataset |-> "unset"]

NoFrame == [op |-> "none", mtries |-> 0, mdelay |-> 0, attempts |-> 0,
            sleeps |-> <<>>, status |-> "none", exc |-> ""]
NoRequest == [op |-> "none", headers |-> InitHeaders, outcome |-> "none"]

NoSeedResponse == [status |-> 0, has_labels |-> FALSE, trace |-> "absent", Error |-> "absent"]

\* _launch_workflow_loop: 'sample' first, then 'full'
DatasetConfigs(dt) ==
    (IF dt \in {"sample", "all"} THEN <<"sample">> ELSE <<>>) \o
    (IF dt \in {"full", "all"} THEN <<"full">> ELSE <<>>)

\* _session_loop(dataset_config, problem_type_config): one session per task
session_loop(tks, dc, pt) ==
    [n \in 1..Len(tks[pt]) |->
        [task |-> tks[pt][n], dataset_config |-> dc, problem_type |-> pt,
         path |-> "session_loop"]]

\* _problem_type_loop(dataset_config): the four types in the code's order
RECURSIVE problem_type_loop(_, _, _, _)
problem_type_loop(tks, c, dc, n) ==
    IF n > Len(ProblemTypes) THEN <<>>
    ELSE (IF c.problem_type \in {ProblemTypes[n], "all"}
          THEN session_loop(tks, dc, ProblemTypes[n]) ELSE <<>>)
         \o problem_type_loop(tks, c, dc, n + 1)

\* _task_id_loop(dataset_config): Session(...) is built without problem_type,
\* so Session.problem_type is None
task_id_loop(c, dc) ==
    <<[task |-> c.task_id, dataset_config |-> dc, problem_type |-> "None",
       path |-> "task_id_loop"]>>

RECURSIVE launch_workflow_loop(_, _, _)
launch_workflow_loop(tks, c, dcs) ==
    IF dcs = <<>> THEN <<>>
    ELSE (IF c.task_id # "None" THEN task_id_loop(c, Head(dcs))
          ELSE problem_type_loop(tks, c, Head(dcs), 1))
         \o launch_workflow_loop(tks, c, Tail(dcs))

\* the sessions the workflow creates, in order, given Workflow.tasks
PlanOf(tks) == launch_workflow_loop(tks, cfg, DatasetConfigs(cfg.dataset_type))
Plan == PlanOf(tasks)

\* the session being constructed or run
Cur == Plan[wf_k]

TypeKeys == {ProblemTypes[n] : n \in 1..Len(ProblemTypes)} \X {"sample", "full"}

\* the sessions that run concurrently, and the token start_session gave each
Sessions == {1, 2}
TokenOf(s) == s

\* the state of the sequential program before Workflow.__init__ makes a call
MainInit ==
    /\ task_list = <<>>
    /\ tasks = [t \in {ProblemTypes[n] : n \in 1..Len(ProblemTypes)} |-> <<>>]
    /\ ti = 1 /\ tk = 1 /\ wf_k = 0
    /\ tasks_completed = <<>>
    /\ task_types_completed = [k \in TypeKeys |-> 0]
    /\ pc = "get_all_tasks"
    /\ err = ""
    /\ non_session_headers = InitHeaders
    /\ fr = NoFrame
    /\ req = NoRequest
    /\ issued = 0
    /\ problem_type = "None"
    /\ session_token = 0
    /\ metadata = NoMetadata
    /\ stage = "none" /\ i = 0
    /\ pair_stage = "" /\ dataset_metadata = "{}"
    /\ seeds = 0 /\ cps = 0 /\ stage_log = <<>>
    /\ raised_from = NoSeedResponse
    /\ set_stage_calls = <<>> /\ reported = FALSE /\ seed_log = <<>>
    /\ submitted = 0

\* no concurrent sessions
ConcInit ==
    /\ c_headers = [h \in Sessions |-> InitHeaders]
    /\ c_pc = [s \in Sessions |-> "idle"]
    /\ c_op = [s \in Sessions |-> "none"]
    /\ c_sent = [s \in Sessions |-> NoRequest]
    /\ c_count = 0

\* item ids and classes of the label records the service returns
ItemIds == {"img1", "img2", "img3"}
Classes == {"cat", "dog"}
LabelRecords == [id : ItemIds, class : Classes]

\* the lists get_seed_labels and request_labels return (response['Labels'])
LabelLists == UNION {[1..n -> LabelRecords] : n \in 0..MaxLabels}

\* a dict keyed by item id; an id that is not a key is "absent"
NoLabels == [k \in ItemIds |-> "absent"]
Keys(d) == {k \in ItemIds : d[k] # "absent"}

\* the label records received so far, by item id, the last one for each id
RECURSIVE Received(_, _)
Received(d, labels) ==
    IF labels = <<>> THEN d
    ELSE Received([d EXCEPT ![Head(labels).id] = Head(labels).class], Tail(labels))

\* a mutant of add_to_label_cache: the records are stored by item id
add_to_label_cache_merge(cache, labels, seed_round) == Received(cache, labels)

\* Session._add_to_label_cache(labels, seed_round): the body is pass
add_to_label_cache(cache, labels, seed_round) == cache

\* Session.__init__: self.label_cache = {}
CacheInit ==
    /\ label_cache = NoLabels
    /\ lc_received = NoLabels
    /\ lc_labels = <<>>
    /\ lc_seed_round = FALSE

\* a Session object before its first _refresh_metadata
RefreshInit ==
    /\ r_has = FALSE
    /\ r_metadata = <<>>
    /\ r_prev = <<>>
    /\ r_prev_response = <<>>
    /\ r_response = <<>>
    /\ r_signals = 0
    /\ r_exc = ""

\* ModelWrapper.__init__: pair_stage = '', dataset_metadata = {}
WrapperInit ==
    /\ mw_pair_stage = ""
    /\ mw_dataset_metadata = "{}"
    /\ mw_calls = <<>>
    /\ mw_exc = "none"

Init ==
    /\ cfg \in Configs
    /\ MainInit
    /\ c_shared = FALSE
    /\ ConcInit
    /\ RefreshInit
    /\ CacheInit
    /\ WrapperInit
    /\ rt_failures = 0

(* ------------------------------------------------------------------ *)
(* One HTTP attempt                                                    *)
(* ------------------------------------------------------------------ *)
CallSites == {"get_all_tasks", "get_task_metadata", "start_session", "init_refresh",
              "seed_labels", "seed_refresh1", "seed_submit", "seed_refresh2",
              "request_labels", "cp_refresh_inner", "cp_submit", "cp_refresh"}

\* the handler method called at each place of the program
OpAt(p) ==
    CASE p \in {"init_refresh", "seed_refresh1", "seed_refresh2",
                "cp_refresh_inner", "cp_refresh"} -> "get_session_metadata"
      [] p = "seed_labels" -> "get_seed_labels"
      [] p \in {"seed_submit", "cp_submit"} -> "submit_predictions"
      [] OTHER -> p

\* a mutant of Frame: mtries and mdelay belong to the decorated method, not to
\* the call, and a new call goes on with what the call before it left
FrameShared(op) ==
    IF fr.status = "running" /\ fr.op = op THEN fr
    ELSE IF Retried(op)
    THEN IF Retried(fr.op) /\ fr.op # "none"
         THEN [NewFrame(op) EXCEPT !.mtries = fr.mtries, !.mdelay = fr.mdelay]
         ELSE NewFrame(op)
    ELSE [NoFrame EXCEPT !.op = op, !.status = "running"]

\* f_retry's locals: kept while the call is in its loop, set up anew when a
\* call starts.  A method without the decorator has no loop to stay in.
Frame(op) ==
    IF fr.status = "running" /\ fr.op = op THEN fr
    ELSE IF Retried(op) THEN NewFrame(op)
    ELSE [NoFrame EXCEPT !.op = op, !.status = "running"]

\* requests.get / requests.post with headers=...: session-scoped methods pass
\* _get_session_headers(session_token), which is self.non_session_headers itself
Send(op, outcome) ==
    /\ non_session_headers' =
          IF op \in SessionOps
          THEN get_session_headers(non_session_headers, session_token)
          ELSE non_session_headers
    /\ req' = [op |-> op, headers |-> non_session_headers', outcome |-> outcome]

\* the call returns from this attempt
Returned(op) ==
    fr' = [Frame(op) EXCEPT !.attempts = @ + 1, !.status = "returned"]

\* the call raises e from this attempt
Raised(op, e) ==
    fr' = [Frame(op) EXCEPT !.attempts = @ + 1, !.status = "raised", !.exc = e]

\* a mutant of Crash: the exception is caught and logged where it arrives
CrashSwallowed(e) ==
    /\ pc' = pc
    /\ err' = e

\* a mutant of Crash: the loop over the tasks catches the exception and goes
\* on as if the session's run had returned
CrashSkipsTask(e) ==
    /\ pc' = IF wf_k >= 1 THEN "run_returned" ELSE "crashed"
    /\ err' = e

\* an uncaught exception leaves Session and Workflow: the program ends
Crash(e) ==
    /\ pc' = "crashed"
    /\ err' = e

\* the body of the method raises e in this attempt: inside f_retry's loop
\* 'except ExceptionToCheck' catches it when it is one and the call sleeps
\* and tries again; any other exception, and any exception of the last
\* attempt, leaves the call
Raise(op, outcome, e) ==
    /\ Send(op, outcome)
    /\ IF e \in ExceptionToCheck /\ InLoop(Frame(op))
       THEN /\ fr' = AfterFailure(Frame(op))
            /\ UNCHANGED <<pc, err>>
       ELSE /\ Raised(op, e)
            /\ Crash(e)

(* ------------------------------------------------------------------ *)
(* workflow.py: Workflow.__init__ and the start of each session        *)
(* ------------------------------------------------------------------ *)
\* a new Session object is constructed for entry k of the workflow's order;
\* past the last entry Workflow.run returns
BeginSession(k, tks) ==
    /\ wf_k' = k
    /\ IF k > Len(PlanOf(tks))
       THEN /\ pc' = "finished"
            /\ UNCHANGED sessVars
       ELSE /\ pc' = "start_session"
            /\ problem_type' = PlanOf(tks)[k].problem_type
            /\ session_token' = 0
            /\ metadata' = NoMetadata
            /\ stage' = "none" /\ i' = 0
            /\ pair_stage' = "" /\ dataset_metadata' = "{}"
            /\ seeds' = 0 /\ cps' = 0 /\ stage_log' = <<>>
            /\ raised_from' = NoSeedResponse
            /\ set_stage_calls' = <<>> /\ reported' = FALSE /\ seed_log' = <<>>
            /\ submitted' = 0

\* _get_task_subset_by_type: the next task of this subset type, the next
\* subset type, or the end of __init__ followed by Workflow.run
NextTaskMetadata(tks) ==
    /\ tasks' = tks
    /\ IF tk < Len(task_list)
       THEN /\ tk' = tk + 1 /\ ti' = ti
            /\ UNCHANGED <<pc, wf_k, sessVars>>
       ELSE IF ti < Len(ProblemTypes)
       THEN /\ tk' = 1 /\ ti' = ti + 1
            /\ UNCHANGED <<pc, wf_k, sessVars>>
       ELSE /\ UNCHANGED <<tk, ti>>
            /\ BeginSession(1, tks)

\* get_all_tasks returns response['tasks']
GetAllTasks ==
    /\ pc = "get_all_tasks"
    /\ Send("get_all_tasks", "ok")
    /\ Returned("get_all_tasks")
    /\ task_list' = ServerTasks
    /\ pc' = "get_task_metadata"
    /\ UNCHANGED <<cfg, concVars, refreshVars, cacheVars, wrapperVars, retryVars, tasks, ti, tk, wf_k, tasks_completed, task_types_completed,
                   err, issued, sessVars>>

\* get_all_tasks: the response is empty: raise Exception("received an empty
\* response from api"), which is not an ExceptionToCheck
GetAllTasksEmpty ==
    /\ pc = "get_all_tasks"
    /\ Raise("get_all_tasks", "empty", "received an empty response from api")
    /\ UNCHANGED <<wfVars, issued, sessVars>>

\* get_task_metadata returns; the task is skipped (skip_dataset), or appended
\* when its problem_type is the subset type
GetTaskMetadata ==
    /\ pc = "get_task_metadata"
    /\ Send("get_task_metadata", "ok")
    /\ Returned("get_task_metadata")
    /\ \E skipped \in BOOLEAN :
         LET t == task_list[tk]
             st == ProblemTypes[ti]
         IN NextTaskMetadata(
               IF ~skipped /\ ProblemTypeOf(t) = st
               THEN [tasks EXCEPT ![st] = Append(@, t)]
               ELSE tasks)
    /\ UNCHANGED <<cfg, concVars, refreshVars, cacheVars, wrapperVars, retryVars, task_list, tasks_completed, task_types_completed, err, issued>>

\* get_task_metadata fails for good, or its response lacks 'task_metadata':
\* caught by except Exception in _get_task_subset_by_type, the task is left out
GetTaskMetadataError ==
    /\ pc = "get_task_metadata"
    /\ \E e \in ExceptionToCheck \cup {"KeyError"} :
         /\ e \in ExceptionToCheck => ~InLoop(Frame("get_task_metadata"))
         /\ Send("get_task_metadata", e)
         /\ Raised("get_task_metadata", e)
    /\ NextTaskMetadata(tasks)
    /\ UNCHANGED <<cfg, concVars, refreshVars, cacheVars, wrapperVars, retryVars, task_list, tasks_completed, task_types_completed, err, issued>>

(* ------------------------------------------------------------------ *)
(* Failures of an attempt                                              *)
(* ------------------------------------------------------------------ *)
\* f_retry: the attempt raises an ExceptionToCheck inside the loop: warn,
\* sleep mdelay, count down, back off, try again
TransientRetry ==
    /\ pc \in CallSites
    /\ InLoop(Frame(OpAt(pc)))
    /\ Send(OpAt(pc), "retried")
    /\ fr' = AfterFailure(Frame(OpAt(pc)))
    /\ UNCHANGED <<wfVars, pc, err, issued, sessVars>>

\* the attempt raises an ExceptionToCheck outside the loop (f_retry line 69),
\* or in a method that is not wrapped: the exception leaves the call
TransientRaise ==
    /\ pc \in CallSites \ {"get_task_metadata"}
    /\ ~InLoop(Frame(OpAt(pc)))
    /\ \E e \in ExceptionToCheck :
         /\ Send(OpAt(pc), e)
         /\ Raised(OpAt(pc), e)
         /\ Crash(e)
    /\ UNCHANGED <<wfVars, issued, sessVars>>

\* the response lacks the key the method reads (response['tasks'],
\* ['session_token'], ['Session_Status'], ['Labels'], "date_last_interacted"):
\* KeyError, which is not an ExceptionToCheck
MalformedResponse ==
    /\ pc \in CallSites
    /\ OpAt(pc) \in {"get_all_tasks", "start_session", "get_session_metadata",
                     "request_labels"}
    /\ Raise(OpAt(pc), "KeyError", "KeyError")
    /\ UNCHANGED <<wfVars, issued, sessVars>>

(* ------------------------------------------------------------------ *)
(* model_wrapper.py                                                    *)
(* ------------------------------------------------------------------ *)
\* ModelWrapper.most_uncertain_unlabeled_items: return []
most_uncertain_unlabeled_items == <<>>

\* a mutant of fit: only the stage is looked at
fit_stage_only(ps, dm) ==
    IF ps = "" THEN "Forgot to set pair_stage before fitting" ELSE ""

\* ModelWrapper.fit: the exception it raises, "" when it returns
fit(ps, dm) ==
    IF ps = "" THEN "Forgot to set pair_stage before fitting"
    ELSE IF dm = "{}" THEN "Didn't set current dataset metadata"
    ELSE ""


\* ModelWrapper.predict reads self.dataset_metadata['dataset_type']
predict(dm) == IF dm = "{}" THEN "KeyError" ELSE ""

(* ------------------------------------------------------------------ *)
(* session.py: Session.__init__ and Session.run                        *)
(* ------------------------------------------------------------------ *)
SeedRounds == 4

\* a mutant of range_lim: 8 checkpoints per stage for every problem type
range_lim_eight(pt) == 8

\* run lines 69-72: range_lim
range_lim(pt) == IF pt = "machine_translation" THEN 8 ELSE 4

\* self.api_handler.submit_predictions(self.session_token, model.predict()):
\* predict runs first and may raise
GoSubmit(site, dm) ==
    IF predict(dm) # "" THEN Crash(predict(dm))
    ELSE pc' = site /\ err' = err

\* while self.metadata['budget_left_until_checkpoint'] > 0 (line 102): the
\* body starts with _request_label_loop (most_uncertain_unlabeled_items, then
\* request_labels); otherwise predictions are submitted.  The head of
\* checkpoint idx is the first test of the loop.
WhileBudget(md, dm) ==
    IF md.budget_left_until_checkpoint > 0
    THEN pc' = "request_labels" /\ err' = err
    ELSE GoSubmit("cp_submit", dm)

EnterCheckpoint(idx, md, dm) ==
    /\ i' = idx
    /\ WhileBudget(md, dm)

\* a mutant of zero_budget: the fetched budget is left as the service reported it
zero_budget_skipped(m) == m

\* run line 110: self.metadata['budget_left_until_checkpoint'] = 0
zero_budget(m) == [m EXCEPT !.budget_left_until_checkpoint = 0]

\* a mutant of EnterStage: run hands its work to the background and returns
EnterStageDetached(st, md) ==
    /\ stage' = st
    /\ set_stage_calls' = Append(set_stage_calls, st)
    /\ pair_stage' = st
    /\ dataset_metadata' = md.current_dataset
    /\ seeds' = 0 /\ cps' = 0
    /\ i' = 0 /\ pc' = "run_returned" /\ err' = err

\* a mutant of EnterStage: the stage begins without model.set_stage
EnterStageNoSetStage(st, md) ==
    /\ stage' = st
    /\ UNCHANGED <<set_stage_calls, pair_stage, dataset_metadata>>
    /\ seeds' = 0 /\ cps' = 0
    /\ IF problem_type # "machine_translation"
       THEN i' = 0 /\ pc' = "seed_labels" /\ err' = err
       ELSE EnterCheckpoint(0, md, dataset_metadata)

\* for stage in [...]: model.set_stage(stage, self.metadata['current_dataset']),
\* then the seed rounds unless the problem type is machine_translation
EnterStage(st, md) ==
    /\ stage' = st
    /\ set_stage_calls' = Append(set_stage_calls, st)
    /\ pair_stage' = st
    /\ dataset_metadata' = md.current_dataset
    /\ seeds' = 0 /\ cps' = 0
    /\ IF problem_type # "machine_translation"
       THEN i' = 0 /\ pc' = "seed_labels" /\ err' = err
       ELSE EnterCheckpoint(0, md, md.current_dataset)

\* the session has fetched a snapshot whose pair_stage is 'adaptation': one
\* fetched before, or the snapshot m just fetched
Reports(m) == reported \/ m.pair_stage = "adaptation"

\* Session.__init__: start_session returns response['session_token']
StartSession ==
    /\ pc = "start_session"
    /\ Send("start_session", "ok")
    /\ Returned("start_session")
    /\ issued' = issued + 1
    /\ session_token' = issued + 1
    /\ pc' = "init_refresh"
    /\ UNCHANGED <<wfVars, err, problem_type, metadata, stage, i, pair_stage,
                   dataset_metadata, seeds, cps, stage_log, raised_from,
                   set_stage_calls, reported, seed_log, submitted>>

\* Session.__init__: self.metadata = self._refresh_metadata(); then run()
\* up to its first call
InitRefresh ==
    /\ pc = "init_refresh"
    /\ Send("get_session_metadata", "ok")
    /\ Returned("get_session_metadata")
    /\ \E m \in MetadataResponses :
         /\ metadata' = m
         /\ reported' = Reports(m)
         /\ EnterStage("base", m)
    /\ UNCHANGED <<wfVars, issued, problem_type, session_token, stage_log, raised_from,
                   seed_log, submitted>>

\* a mutant of SeedLabels: fit and predict follow get_seed_labels at once,
\* without the metadata refresh between them
SeedLabelsThenFit ==
    /\ pc = "seed_labels"
    /\ Send("get_seed_labels", "ok")
    /\ Returned("get_seed_labels")
    /\ IF fit(pair_stage, dataset_metadata) # ""
       THEN Crash(fit(pair_stage, dataset_metadata))
       ELSE GoSubmit("seed_submit", dataset_metadata)
    /\ submitted' = submitted
    /\ seed_log' = <<"get_seed_labels", "_add_to_label_cache">>
                     \o (IF fit(pair_stage, dataset_metadata) = "" THEN <<"fit">> ELSE <<>>)
                     \o (IF fit(pair_stage, dataset_metadata) = ""
                            /\ predict(dataset_metadata) = "" THEN <<"predict">> ELSE <<>>)
    /\ UNCHANGED <<wfVars, issued, sessCore>>

\* get_seed_labels: status 200 and 'Labels' in the response
SeedLabels ==
    /\ pc = "seed_labels"
    /\ Send("get_seed_labels", "ok")
    /\ Returned("get_seed_labels")
    /\ pc' = "seed_refresh1"
    /\ submitted' = submitted
    /\ seed_log' = <<"get_seed_labels">>
    /\ UNCHANGED <<wfVars, err, issued, sessCore>>

\* get_seed_labels: status 200 without 'Labels': raise Exception(trace / Error)
SeedLabelsMissing ==
    /\ pc = "seed_labels"
    /\ Send("get_seed_labels", "no_labels")
    /\ \E r \in SeedResponses :
         /\ r.status = 200 /\ ~r.has_labels
         /\ raised_from' = r
         /\ Raised("get_seed_labels", ErrorMessage(r))
         /\ Crash(ErrorMessage(r))
    /\ UNCHANGED <<wfVars, issued, problem_type, session_token, metadata, stage, i, pair_stage,
                   dataset_metadata, seeds, cps, stage_log, set_stage_calls, reported,
                   seed_log, submitted>>

\* get_seed_labels: another status: self.log.exception(...), and the method
\* ends without a return statement (the caller gets None)
SeedLabelsHttpError ==
    /\ pc = "seed_labels"
    /\ Send("get_seed_labels", "non_2xx")
    /\ Returned("get_seed_labels")
    /\ pc' = "seed_refresh1"
    /\ submitted' = submitted
    /\ seed_log' = <<"get_seed_labels">>
    /\ UNCHANGED <<wfVars, err, issued, sessCore>>

\* seed round: metadata refresh, _add_to_label_cache (pass), model.fit, predict
SeedRefresh1 ==
    /\ pc = "seed_refresh1"
    /\ Send("get_session_metadata", "ok")
    /\ Returned("get_session_metadata")
    /\ \E m \in MetadataResponses : metadata' = m /\ reported' = Reports(m)
    /\ IF fit(pair_stage, dataset_metadata) # ""
       THEN Crash(fit(pair_stage, dataset_metadata))
       ELSE GoSubmit("seed_submit", dataset_metadata)
    /\ submitted' = submitted
    /\ seed_log' = seed_log \o <<"_refresh_metadata", "_add_to_label_cache">>
                     \o (IF fit(pair_stage, dataset_metadata) = "" THEN <<"fit">> ELSE <<>>)
                     \o (IF fit(pair_stage, dataset_metadata) = ""
                            /\ predict(dataset_metadata) = "" THEN <<"predict">> ELSE <<>>)
    /\ UNCHANGED <<wfVars, issued, problem_type, session_token, stage, i, pair_stage,
                   dataset_metadata, seeds, cps, stage_log, raised_from, set_stage_calls>>

\* a mutant of Submit: a status other than 200 raises (raise_for_status)
SubmitFatal(site, next) ==
    /\ pc = site
    /\ \E status \in {200, 500} :
         /\ Send("submit_predictions", IF status = 200 THEN "ok" ELSE "non_2xx")
         /\ IF status = 200
            THEN Returned("submit_predictions") /\ pc' = next /\ err' = err
            ELSE Raised("submit_predictions", "HTTPError") /\ Crash("HTTPError")
    /\ UNCHANGED <<wfVars, issued, sessVars>>

\* submit_predictions: a status other than 200 is logged; the method returns
Submit(site, next) ==
    /\ pc = site
    /\ \E status \in {200, 500} :
         Send("submit_predictions", IF status = 200 THEN "ok" ELSE "non_2xx")
    /\ Returned("submit_predictions")
    /\ pc' = next
    /\ seed_log' = IF site = "seed_submit"
                   THEN Append(seed_log, "submit_predictions") ELSE seed_log
    /\ submitted' = submitted + 1
    /\ UNCHANGED <<wfVars, err, issued, sessCore>>

SeedSubmit == Submit("seed_submit", "seed_refresh2")

\* seed round: the second metadata refresh, then the next round of range(4) or
\* the first checkpoint
SeedRefresh2 ==
    /\ pc = "seed_refresh2"
    /\ Send("get_session_metadata", "ok")
    /\ Returned("get_session_metadata")
    /\ seeds' = seeds + 1
    /\ submitted' = submitted
    /\ seed_log' = Append(seed_log, "_refresh_metadata")
    /\ \E m \in MetadataResponses :
         /\ metadata' = m
         /\ reported' = Reports(m)
         /\ IF i + 1 < SeedRounds
            THEN i' = i + 1 /\ pc' = "seed_labels" /\ err' = err
            ELSE EnterCheckpoint(0, m, dataset_metadata)
    /\ UNCHANGED <<wfVars, issued, problem_type, session_token, stage, pair_stage,
                   dataset_metadata, cps, stage_log, raised_from, set_stage_calls>>

\* a mutant of RequestLabels: an empty list of samples is an error
RequestLabelsRejectEmpty ==
    /\ pc = "request_labels"
    /\ IF most_uncertain_unlabeled_items = <<>>
       THEN /\ Crash("ValueError")
            /\ UNCHANGED <<non_session_headers, fr, req>>
       ELSE /\ Send("request_labels", "ok")
            /\ Returned("request_labels")
            /\ pc' = "cp_refresh_inner" /\ err' = err
    /\ UNCHANGED <<wfVars, issued, sessVars>>

\* _request_label_loop: request_labels is called with the list
\* most_uncertain_unlabeled_items returned, whatever its length, and returns
\* response['Labels']; _add_to_label_cache (pass); back in run: model.fit
RequestLabels ==
    /\ pc = "request_labels"
    /\ Send("request_labels", "ok")
    /\ Returned("request_labels")
    /\ IF fit(pair_stage, dataset_metadata) # ""
       THEN Crash(fit(pair_stage, dataset_metadata))
       ELSE pc' = "cp_refresh_inner" /\ err' = err
    /\ UNCHANGED <<wfVars, issued, sessVars>>

\* inside the while loop: refresh, then budget_left_until_checkpoint = 0, and
\* the loop condition is tested again
CpRefreshInner ==
    /\ pc = "cp_refresh_inner"
    /\ Send("get_session_metadata", "ok")
    /\ Returned("get_session_metadata")
    /\ \E m \in MetadataResponses :
         /\ metadata' = zero_budget(m)
         /\ reported' = Reports(m)
         /\ WhileBudget(zero_budget(m), dataset_metadata)
    /\ UNCHANGED <<wfVars, issued, problem_type, session_token, stage, i, pair_stage,
                   dataset_metadata, seeds, cps, stage_log, raised_from, set_stage_calls,
                   seed_log, submitted>>

CpSubmit == Submit("cp_submit", "cp_refresh")

\* run line 116: if i == range_lim and model.pair_stage == 'base':
\*                   assert self.metadata['pair_stage'] == 'adaptation'
StageAssertion(idx, rl, ps, md) ==
    (idx = rl /\ ps = "base") => md.pair_stage = "adaptation"

\* a mutant of SessionComplete: the final assert is not made
SessionCompleteUnchecked(md) == TRUE

\* run line 120: assert self.metadata['active'] == 'Complete'
SessionComplete(md) == md.active = "Complete"

\* a mutant of CpRefreshNext: the next checkpoint's loop is gated by the
\* snapshot held before the refresh
CpRefreshNextStale ==
    /\ pc = "cp_refresh"
    /\ i + 1 < range_lim(problem_type)
    /\ Send("get_session_metadata", "ok")
    /\ Returned("get_session_metadata")
    /\ \E m \in MetadataResponses :
         /\ metadata' = m
         /\ reported' = Reports(m)
         /\ cps' = cps + 1
         /\ EnterCheckpoint(i + 1, metadata, dataset_metadata)
    /\ UNCHANGED <<wfVars, issued, problem_type, session_token, stage, pair_stage,
                   dataset_metadata, seeds, stage_log, raised_from, set_stage_calls,
                   seed_log, submitted>>

\* the refresh that ends a checkpoint, with checkpoints left in the stage
CpRefreshNext ==
    /\ pc = "cp_refresh"
    /\ i + 1 < range_lim(problem_type)
    /\ Send("get_session_metadata", "ok")
    /\ Returned("get_session_metadata")
    /\ \E m \in MetadataResponses :
         /\ metadata' = m
         /\ reported' = Reports(m)
         /\ IF StageAssertion(i, range_lim(problem_type), pair_stage, m)
            THEN /\ cps' = cps + 1
                 /\ EnterCheckpoint(i + 1, m, dataset_metadata)
            ELSE /\ Crash("AssertionError")
                 /\ UNCHANGED <<i, cps>>
    /\ UNCHANGED <<wfVars, issued, problem_type, session_token, stage, pair_stage,
                   dataset_metadata, seeds, stage_log, raised_from, set_stage_calls,
                   seed_log, submitted>>

\* the refresh that ends the last checkpoint of stage base: the for loop goes
\* on to stage adaptation
CpRefreshStageEnd ==
    /\ pc = "cp_refresh"
    /\ i + 1 = range_lim(problem_type)
    /\ stage = "base"
    /\ Send("get_session_metadata", "ok")
    /\ Returned("get_session_metadata")
    /\ \E m \in MetadataResponses :
         /\ metadata' = m
         /\ reported' = Reports(m)
         /\ IF StageAssertion(i, range_lim(problem_type), pair_stage, m)
            THEN /\ stage_log' = Append(stage_log, <<stage, seeds, cps + 1>>)
                 /\ EnterStage("adaptation", m)
            ELSE /\ Crash("AssertionError")
                 /\ UNCHANGED <<stage, i, pair_stage, dataset_metadata, seeds, cps,
                                stage_log, set_stage_calls>>
    /\ UNCHANGED <<wfVars, issued, problem_type, session_token, raised_from, seed_log, submitted>>

\* the refresh that ends the last checkpoint of stage adaptation: the final
\* assert of run
CpRefreshFinal ==
    /\ pc = "cp_refresh"
    /\ i + 1 = range_lim(problem_type)
    /\ stage = "adaptation"
    /\ Send("get_session_metadata", "ok")
    /\ Returned("get_session_metadata")
    /\ \E m \in MetadataResponses :
         IF ~StageAssertion(i, range_lim(problem_type), pair_stage, m)
         THEN /\ Crash("AssertionError")
              /\ metadata' = m
              /\ reported' = Reports(m)
              /\ UNCHANGED <<wfVars, problem_type, session_token, stage, i, pair_stage,
                             dataset_metadata, seeds, cps, stage_log, raised_from>>
         ELSE IF ~SessionComplete(m)
         THEN /\ Crash("AssertionError: Session is not complete")
              /\ metadata' = m
              /\ reported' = Reports(m)
              /\ cps' = cps + 1
              /\ stage_log' = Append(stage_log, <<stage, seeds, cps + 1>>)
              /\ UNCHANGED <<wfVars, problem_type, session_token, stage, i, pair_stage,
                             dataset_metadata, seeds, raised_from>>
         ELSE /\ pc' = "run_returned" /\ err' = err
              /\ metadata' = m
              /\ reported' = Reports(m)
              /\ cps' = cps + 1
              /\ stage_log' = Append(stage_log, <<stage, seeds, cps + 1>>)
              /\ UNCHANGED <<wfVars, problem_type, session_token, stage, i, pair_stage,
                             dataset_metadata, seeds, raised_from>>
    /\ UNCHANGED <<issued, set_stage_calls, seed_log, submitted>>

\* _task_id_loop / _session_loop after session.run() returned: record the
\* task, count its type, go on to the next session
SessionCompleted ==
    /\ pc = "run_returned"
    /\ LET key == IF Cur.path = "task_id_loop"
                  THEN <<cfg.problem_type, Cur.dataset_config>>
                  ELSE <<Cur.problem_type, Cur.dataset_config>>
       IN /\ tasks_completed' = Append(tasks_completed, <<Cur.task, Cur.dataset_config>>)
          /\ IF key \in DOMAIN task_types_completed
             THEN /\ task_types_completed' = [task_types_completed EXCEPT ![key] = @ + 1]
                  /\ err' = err
                  /\ BeginSession(wf_k + 1, tasks)
             ELSE /\ Crash("KeyError")
                  /\ UNCHANGED <<task_types_completed, wf_k, sessVars>>
    /\ UNCHANGED <<cfg, concVars, refreshVars, cacheVars, wrapperVars, retryVars, task_list, tasks, ti, tk, non_session_headers, fr, req, issued>>

Next ==
    \/ GetAllTasks
    \/ GetAllTasksEmpty
    \/ GetTaskMetadata
    \/ GetTaskMetadataError
    \/ TransientRetry
    \/ TransientRaise
    \/ MalformedResponse
    \/ StartSession
    \/ InitRefresh
    \/ SeedLabels
    \/ SeedLabelsMissing
    \/ SeedLabelsHttpError
    \/ SeedRefresh1
    \/ SeedSubmit
    \/ SeedRefresh2
    \/ RequestLabels
    \/ CpRefreshInner
    \/ CpSubmit
    \/ CpRefreshNext
    \/ CpRefreshStageEnd
    \/ CpRefreshFinal
    \/ SessionCompleted

Spec == Init /\ [][Next]_vars

(* ------------------------------------------------------------------ *)
(* Two sessions at once on LwllApiHandler                              *)
(* ------------------------------------------------------------------ *)
mainVars == <<cfg, task_list, tasks, ti, tk, wf_k, tasks_completed, task_types_completed,
              pc, err, non_session_headers, fr, req, issued, sessVars>>

\* a mutant of handler_of: one handler object for every session
handler_of_one(s) == 1

\* Session.__init__: self.api_handler = api_handler, the object the caller
\* passed: the same one for both sessions, or one constructed for each
handler_of(s) == IF c_shared THEN 1 ELSE s

\* a session-scoped method evaluates self._get_session_headers(session_token):
\* the handler's dict gets the token and is the value passed as headers=...
CallGetSessionHeaders(s) ==
    /\ c_pc[s] = "idle"
    /\ c_count < MaxRequests
    /\ \E op \in SessionOps : c_op' = [c_op EXCEPT ![s] = op]
    /\ c_headers' = [c_headers EXCEPT
                        ![handler_of(s)] = get_session_headers(@, TokenOf(s))]
    /\ c_pc' = [c_pc EXCEPT ![s] = "built"]
    /\ UNCHANGED <<mainVars, refreshVars, cacheVars, wrapperVars, retryVars, c_shared, c_sent, c_count>>

\* requests.get / requests.post reads the dict it was passed and sends
CallSend(s) ==
    /\ c_pc[s] = "built"
    /\ c_sent' = [c_sent EXCEPT ![s] =
                     [op |-> c_op[s], headers |-> c_headers[handler_of(s)],
                      outcome |-> "ok"]]
    /\ c_pc' = [c_pc EXCEPT ![s] = "idle"]
    /\ c_count' = c_count + 1
    /\ UNCHANGED <<mainVars, refreshVars, cacheVars, wrapperVars, retryVars, c_shared, c_headers, c_op>>

InitConc ==
    /\ cfg = [dataset_type |-> "all", problem_type |-> "all", task_id |-> "None"]
    /\ MainInit
    /\ c_shared \in BOOLEAN
    /\ ConcInit
    /\ RefreshInit
    /\ CacheInit
    /\ WrapperInit
    /\ rt_failures = 0

NextConc == \E s \in Sessions : CallGetSessionHeaders(s) \/ CallSend(s)

SpecConc == InitConc /\ [][NextConc]_vars

(* ------------------------------------------------------------------ *)
(* session.py: _refresh_metadata and its comparison of snapshots       *)
(* ------------------------------------------------------------------ *)
\* keys of a Session_Status and the values the service gives each of them
\* (a number is written as its JSON text)
StatusKeys == {"active", "budget_left_until_checkpoint", "date_last_interacted"}
StatusValues(k) ==
    CASE k = "active" -> {"Active", "Complete"}
      [] k = "budget_left_until_checkpoint" -> {"0", "1"}
      [] OTHER -> {"2020-01-01", "2020-01-02"}
StatusPairs == UNION {{<<k, v>> : v \in StatusValues(k)} : k \in StatusKeys}

\* a dict as r.json() builds it: the pairs in the order of the response text,
\* every key once; a response may lack any of the keys
StatusDicts ==
    {d \in UNION {[1..n -> StatusPairs] : n \in 0..Cardinality(StatusKeys)} :
        \A a, b \in DOMAIN d : d[a][1] = d[b][1] => a = b}

\* json.dumps(d): the text lists key, value, key, value, ... in the dict's order
json_dumps(d) ==
    [n \in 1..(2 * Len(d)) |->
        IF n % 2 = 1 THEN d[(n + 1) \div 2][1] ELSE d[n \div 2][2]]

\* json.loads(text): the dict with the pairs in the order of the text
json_loads(t) ==
    [n \in 1..(Len(t) \div 2) |-> <<t[2 * n - 1], t[2 * n]>>]

has_key(d, k) == \E n \in DOMAIN d : d[n][1] = k

NotDate(pair) == pair[1] # "date_last_interacted"

\* a mutant of del_date: the timestamp is left in the copy
del_date_kept(d) == d

\* del d["date_last_interacted"]: the other pairs keep their order
del_date(d) == SelectSeq(d, NotDate)

\* _refresh_metadata with self.metadata = md (has: the attribute exists) and
\* the service answering resp: the exception raised, the value returned and
\* the number of 'did not change' messages logged
refresh_metadata(has, md, resp) ==
    LET old_metadata == IF has THEN del_date(json_loads(json_dumps(md))) ELSE <<>>
        new_metadata == del_date(json_loads(json_dumps(resp)))
    IN IF has /\ ~has_key(md, "date_last_interacted")
       THEN [exc |-> "KeyError", metadata |-> md, signals |-> 0]
       ELSE IF ~has_key(resp, "date_last_interacted")
       THEN [exc |-> "KeyError", metadata |-> md, signals |-> 0]
       ELSE [exc |-> "", metadata |-> resp,
             signals |-> IF json_dumps(old_metadata) = json_dumps(new_metadata)
                         THEN 1 ELSE 0]

\* self.metadata = self._refresh_metadata(): an exception leaves the caller,
\* nothing is stored and the session makes no further call
RefreshMetadata ==
    /\ r_exc = ""
    /\ \E resp \in StatusDicts :
         LET res == refresh_metadata(r_has, r_metadata, resp)
         IN /\ r_response' = resp
            /\ r_exc' = res.exc
            /\ r_signals' = res.signals
            /\ r_prev' = r_metadata
            /\ r_prev_response' = r_response
            /\ r_metadata' = res.metadata
            /\ r_has' = (r_has \/ res.exc = "")
    /\ UNCHANGED <<mainVars, concVars, cacheVars, wrapperVars, retryVars>>

InitRefreshOnly ==
    /\ cfg = [dataset_type |-> "all", problem_type |-> "all", task_id |-> "None"]
    /\ MainInit
    /\ c_shared = FALSE
    /\ ConcInit
    /\ RefreshInit
    /\ CacheInit
    /\ WrapperInit
    /\ rt_failures = 0

SpecRefresh == InitRefreshOnly /\ [][RefreshMetadata]_vars

\* d[k] = v on a dict: the value of an existing key is replaced in place, a
\* new key goes to the end
set_item(d, k, v) ==
    IF has_key(d, k)
    THEN [n \in DOMAIN d |-> IF d[n][1] = k THEN <<k, v>> ELSE d[n]]
    ELSE Append(d, <<k, v>>)

\* a mutant of zero_budget_dict: the snapshot is replaced by a new dict
zero_budget_dict_fresh(d) == <<<<"budget_left_until_checkpoint", "0">>>>

\* run line 110 on the stored dict: self.metadata['budget_left_until_checkpoint'] = 0
zero_budget_dict(d) == set_item(d, "budget_left_until_checkpoint", "0")

\* run lines 105-110: the statements that follow the refresh inside the while
\* loop.  The log message of line 106 reads budget_left_until_checkpoint (a
\* missing key raises); line 110 is the only assignment into self.metadata
\* that is not a refresh
ZeroBudget ==
    /\ r_has
    /\ r_exc = ""
    /\ r_metadata = r_response
    /\ IF has_key(r_metadata, "budget_left_until_checkpoint")
       THEN r_metadata' = zero_budget_dict(r_metadata) /\ r_exc' = r_exc
       ELSE r_metadata' = r_metadata /\ r_exc' = "KeyError"
    /\ UNCHANGED <<r_has, r_prev, r_prev_response, r_response, r_signals>>
    /\ UNCHANGED <<mainVars, concVars, cacheVars, wrapperVars, retryVars>>

\* the writes of a session to self.metadata: lines 57, 84, 90, 105, 112
\* (refresh) and line 110
NextSnapshot == RefreshMetadata \/ ZeroBudget

SpecSnapshot == InitRefreshOnly /\ [][NextSnapshot]_vars

(* ------------------------------------------------------------------ *)
(* session.py: the label cache over seed and label-request rounds      *)
(* ------------------------------------------------------------------ *)
\* a round hands the list it received to _add_to_label_cache
LabelRound(labels, seed_round) ==
    /\ label_cache' = add_to_label_cache(label_cache, labels, seed_round)
    /\ lc_received' = Received(lc_received, labels)
    /\ lc_labels' = labels
    /\ lc_seed_round' = seed_round
    /\ UNCHANGED <<mainVars, concVars, refreshVars, wrapperVars, retryVars>>

\* run: seed_labels = get_seed_labels(...); _add_to_label_cache(seed_labels,
\* seed_round=True)
SeedRound == \E labels \in LabelLists : LabelRound(labels, TRUE)

\* _request_label_loop: labels = request_labels(...);
\* _add_to_label_cache(labels, seed_round=False)
RequestLabelLoop == \E labels \in LabelLists : LabelRound(labels, FALSE)

NextCache == SeedRound \/ RequestLabelLoop

SpecCache == InitRefreshOnly /\ [][NextCache]_vars

(* ------------------------------------------------------------------ *)
(* model_wrapper.py: a ModelWrapper object under any calls              *)
(* ------------------------------------------------------------------ *)
\* the values set_stage may be given for stage: a str
StageArgs == {"", "base", "adaptation"}

\* ModelWrapper.set_stage(stage, dataset_metadata)
SetStage ==
    /\ Len(mw_calls) < MaxCalls
    /\ \E st \in StageArgs, dm \in Datasets :
         /\ mw_pair_stage' = st
         /\ mw_dataset_metadata' = dm
    /\ mw_calls' = Append(mw_calls, "set_stage")
    /\ UNCHANGED <<mw_exc, mainVars, concVars, refreshVars, cacheVars, retryVars>>

\* a call of ModelWrapper.fit on the object
Fit ==
    /\ Len(mw_calls) < MaxCalls
    /\ mw_exc' = fit(mw_pair_stage, mw_dataset_metadata)
    /\ mw_calls' = Append(mw_calls, "fit")
    /\ UNCHANGED <<mw_pair_stage, mw_dataset_metadata, mainVars, concVars, refreshVars,
                   cacheVars, retryVars>>

NextWrapper == SetStage \/ Fit

SpecWrapper == InitRefreshOnly /\ [][NextWrapper]_vars

(* ------------------------------------------------------------------ *)
(* decorators.py: calls of the wrapped methods, one after the other     *)
(* ------------------------------------------------------------------ *)
\* the methods of LwllApiHandler that carry @retry
RetriedOps == {op \in Ops : Retried(op)}

\* the method whose attempt comes next: the one whose call is in its loop, or
\* any wrapped method when no call is in progress
NextOps ==
    IF fr.status = "running" THEN {fr.op}
    ELSE IF rt_failures < MaxFailures THEN RetriedOps ELSE {}

\* what a call that ends adds to the failures of the calls that have ended
Ended(f) == rt_failures' = rt_failures + Len(f.sleeps)

retryFrame == <<cfg, task_list, tasks, ti, tk, wf_k, tasks_completed, task_types_completed,
                pc, err, non_session_headers, req, issued, sessVars,
                concVars, refreshVars, cacheVars, wrapperVars>>

\* f_retry: the attempt raises an ExceptionToCheck inside the loop
AttemptFails ==
    /\ \E op \in NextOps :
         /\ InLoop(Frame(op))
         /\ fr' = AfterFailure(Frame(op))
    /\ UNCHANGED <<rt_failures, retryFrame>>

\* f_retry: return f(*args, **kwargs), inside the loop or after it
AttemptReturns ==
    /\ \E op \in NextOps :
         /\ Returned(op)
         /\ Ended(Frame(op))
    /\ UNCHANGED retryFrame

\* f_retry: the attempt raises an ExceptionToCheck after the loop, or another
\* exception at any attempt
AttemptRaises ==
    /\ \E op \in NextOps, e \in ExceptionToCheck \cup {"KeyError"} :
         /\ e \in ExceptionToCheck => ~InLoop(Frame(op))
         /\ Raised(op, e)
         /\ Ended(Frame(op))
    /\ UNCHANGED retryFrame

NextRetry == AttemptFails \/ AttemptReturns \/ AttemptRaises

SpecRetry == InitRefreshOnly /\ [][NextRetry]_vars

(* ------------------------------------------------------------------ *)
(* Properties                                                          *)
(* ------------------------------------------------------------------ *)

\* C1: a retry-wrapped call that returns after k failed attempts (k <= 3) has
\* made exactly k+1 attempts, the last request sent is the one that succeeded,
\* and it has slept exactly the first k of the delays 3, 6, 12, in that order.
C1_RetryReturns ==
    (fr.status = "returned" /\ fr.op # "get_seed_labels") =>
        /\ fr.attempts \in 1..4
        /\ fr.sleeps = SubSeq(<<3, 6, 12>>, 1, fr.attempts - 1)
        /\ req.op = fr.op
        /\ req.outcome \in {"ok", "non_2xx"}

C1_Witness ==
    /\ fr.status = "returned"
    /\ fr.op = "get_session_metadata"
    /\ fr.attempts = 4
    /\ fr.sleeps = <<3, 6, 12>>

\* C2: when a retry-wrapped call ends with a transient failure, exactly 4
\* attempts were made, the sleeps were exactly 3, 6, 12, and the exception
\* that leaves the call is the one the 4th attempt raised; no call ever makes
\* a 5th attempt.
C2_RetryExhausted ==
    /\ fr.attempts <= 4
    /\ (fr.status = "raised" /\ fr.op # "get_seed_labels"
        /\ req.outcome \in {"ConnectionError", "Timeout"}) =>
            /\ fr.attempts = 4
            /\ fr.sleeps = <<3, 6, 12>>
            /\ fr.exc = req.outcome
            /\ (pc = "crashed" => err = req.outcome)

C2_Witness ==
    /\ pc = "crashed"
    /\ fr.status = "raised"
    /\ fr.op = "submit_predictions"
    /\ err = "Timeout"
    /\ fr.attempts = 4

\* C3: every stage a session has finished ran 0 seed rounds and 8 checkpoints
\* when Session.problem_type is machine_translation, and 4 seed rounds and 4
\* checkpoints otherwise, whatever budgets the service reported.
C3_StageCadence ==
    \A n \in 1..Len(stage_log) :
        stage_log[n] = <<IF n = 1 THEN "base" ELSE "adaptation",
                         IF problem_type = "machine_translation" THEN 0 ELSE 4,
                         IF problem_type = "machine_translation" THEN 8 ELSE 4>>

C3_Witness ==
    /\ problem_type = "machine_translation"
    /\ stage_log = << <<"base", 0, 8>>, <<"adaptation", 0, 8>> >>

\* C4: once both stages are finished, a final snapshot with active other than
\* 'Complete' ends the program with the assertion error, the final refresh is
\* the last request sent and nothing further can happen; with 'Complete' run
\* returns (what may fail afterwards is the workflow's own bookkeeping).
C4_FinalAssertion ==
    Len(stage_log) = 2 =>
        IF metadata.active # "Complete"
        THEN /\ pc = "crashed"
             /\ err = "AssertionError: Session is not complete"
             /\ req.op = "get_session_metadata"
             /\ ~ENABLED Next
        ELSE \/ pc \in {"run_returned", "finished"}
             \/ pc = "crashed" /\ err = "KeyError" /\ fr.status = "returned"

C4_Witness ==
    /\ pc = "crashed"
    /\ err = "AssertionError: Session is not complete"
    /\ Len(stage_log) = 2

\* C5: the session goes from stage base to stage adaptation only when the
\* snapshot fetched after the last base checkpoint reports pair_stage
\* 'adaptation'.
C5_StageTransitionChecked ==
    [][(stage = "base" /\ stage' = "adaptation")
        => metadata'.pair_stage = "adaptation"]_vars

\* C6: a request of a non-session method (get_all_tasks, get_task_metadata,
\* start_session) carries the team secret and no session_token.
C6_NonSessionHeaders ==
    req.op \in NonSessionOps => req.headers = [user_secret |-> team_secret]

\* C7: with one handler constructed per session, every session-scoped request
\* carries the token of the session that sent it (the first half of the
\* claim is the reachability of C7_Witness).
C7_IndependentHandlers ==
    ~c_shared =>
        \A s \in Sessions :
            c_sent[s].op # "none" => c_sent[s].headers.session_token = TokenOf(s)

\* with a shared handler, a request of one session carries the other's token
C7_Witness ==
    /\ c_shared
    /\ \E s \in Sessions :
         /\ c_sent[s].op \in SessionOps
         /\ c_sent[s].headers.session_token \in {TokenOf(t) : t \in Sessions \ {s}}

\* C8: get_seed_labels makes one attempt and never sleeps, and a transient
\* failure of it ends the program at once with that exception; every other
\* method still in its first attempts answers the same failure by sleeping
\* and trying again.
C8_SeedLabelsNotRetried ==
    /\ fr.op = "get_seed_labels" =>
          /\ fr.attempts <= 1
          /\ fr.sleeps = <<>>
          /\ (req.outcome \in {"ConnectionError", "Timeout"} =>
                 /\ pc = "crashed"
                 /\ err = req.outcome
                 /\ fr.attempts = 1)
    /\ (fr.op \in Ops \ {"get_seed_labels"} /\ fr.status = "raised"
        /\ req.outcome \in {"ConnectionError", "Timeout"}) => fr.attempts > 1

C8_Witness ==
    /\ fr.op = "get_seed_labels"
    /\ fr.status = "raised"
    /\ pc = "crashed"
    /\ err = "ConnectionError"

\* C9: a 200 response of /seed_labels without 'Labels' ends the program with
\* an error whose message is the response's 'trace' when it has one and
\* otherwise its 'Error' when it has one; that request stays the last one
\* sent and nothing further can happen.
C9_SeedLabelsMissing ==
    req.outcome = "no_labels" =>
        /\ req.op = "get_seed_labels"
        /\ pc = "crashed"
        /\ raised_from.status = 200 /\ ~raised_from.has_labels
        /\ raised_from.trace # "absent" => err = raised_from.trace
        /\ (raised_from.trace = "absent" /\ raised_from.Error # "absent")
              => err = raised_from.Error
        /\ fr.exc = err
        /\ ~ENABLED Next

C9_Witness ==
    /\ req.outcome = "no_labels"
    /\ raised_from.trace = "trace text"
    /\ raised_from.Error = "error text"
    /\ err = "trace text"

\* C10: a non-2xx response of /seed_labels ends the session.
C10_SeedHttpErrorFatal ==
    (req.op = "get_seed_labels" /\ req.outcome = "non_2xx") => pc = "crashed"

\* C11: after a non-2xx response to submit_predictions the call has returned
\* (it neither raised nor stays in the retry loop, and it did not sleep after
\* that attempt), no error is recorded, and the program is at the metadata
\* refresh that follows the submission.
C11_SubmitErrorNotFatal ==
    (req.op = "submit_predictions" /\ req.outcome = "non_2xx") =>
        /\ fr.op = "submit_predictions"
        /\ fr.status = "returned"
        /\ Len(fr.sleeps) = fr.attempts - 1
        /\ err = ""
        /\ pc \in {"seed_refresh2", "cp_refresh"}
        /\ OpAt(pc) = "get_session_metadata"

C11_Witness ==
    /\ req.op = "submit_predictions"
    /\ req.outcome = "non_2xx"
    /\ pc = "cp_refresh"
    /\ stage = "adaptation"

\* same keys in the same order, the same value for every key other than
\* date_last_interacted
SameExceptDate(a, b) ==
    /\ Len(a) = Len(b)
    /\ \A n \in DOMAIN a :
         /\ a[n][1] = b[n][1]
         /\ NotDate(a[n]) => a[n][2] = b[n][2]

\* C12: when _refresh_metadata runs with a stored snapshot and the service
\* answers with the same snapshot, date_last_interacted apart, the call does
\* not raise, returns the new snapshot and logs exactly one 'did not change'
\* message, also when the two timestamps differ.
C12_RefreshUnchanged ==
    (r_prev # <<>> /\ SameExceptDate(r_prev, r_response)) =>
        /\ r_exc = ""
        /\ r_signals = 1
        /\ r_metadata = r_response

C12_Witness ==
    /\ r_prev # <<>>
    /\ r_prev # r_response
    /\ SameExceptDate(r_prev, r_response)
    /\ Len(r_response) = 3
    /\ r_signals = 1

StageSites == {"seed_labels", "seed_refresh1", "seed_submit", "seed_refresh2",
               "request_labels", "cp_refresh_inner", "cp_submit", "cp_refresh"}

\* C13: model.set_stage has been called exactly once for the stage the run is
\* in and for each stage before it, in the order base, adaptation, and at
\* every call site of a stage (where fit, predict and submit_predictions are
\* made) the learner holds that stage; fit never fails for want of a stage.
C13_SetStageOncePerStage ==
    /\ set_stage_calls = (IF stage = "none" THEN <<>>
                          ELSE IF stage = "base" THEN <<"base">>
                          ELSE <<"base", "adaptation">>)
    /\ pc \in StageSites =>
          /\ stage \in {"base", "adaptation"}
          /\ pair_stage = stage
          /\ set_stage_calls[Len(set_stage_calls)] = stage
    /\ err # "Forgot to set pair_stage before fitting"

C13_Witness ==
    /\ stage = "adaptation"
    /\ set_stage_calls = <<"base", "adaptation">>
    /\ pc = "seed_submit"
    /\ seed_log[Len(seed_log)] = "predict"

\* C14: within a session the stage changes only from base to adaptation, and
\* only when a snapshot fetched in the session has reported pair_stage
\* 'adaptation'.
C14_StageFollowsServer ==
    [][(stage' # stage /\ stage # "none" /\ wf_k' = wf_k) =>
          /\ stage = "base"
          /\ stage' = "adaptation"
          /\ reported']_vars

\* the calls of one seed round, lines 83-90 of run
SeedRoundCalls ==
    <<"get_seed_labels", "_refresh_metadata", "_add_to_label_cache", "fit", "predict",
      "submit_predictions", "_refresh_metadata">>

\* C19: the calls of a seed round happen in the order get_seed_labels,
\* refresh, merge, fit, predict, submit, refresh: at each call site of the
\* round the calls made so far are exactly the ones before it, and a
\* completed round is exactly that sequence.
C19_SeedRoundOrder ==
    /\ Len(seed_log) <= Len(SeedRoundCalls)
    /\ seed_log = SubSeq(SeedRoundCalls, 1, Len(seed_log))
    /\ pc = "seed_refresh1" => Len(seed_log) = 1
    /\ pc = "seed_submit" => Len(seed_log) = 5
    /\ pc = "seed_refresh2" => Len(seed_log) = 6
    /\ (seeds > 0 /\ pc \in StageSites \ {"seed_refresh1", "seed_submit", "seed_refresh2"})
          => seed_log = SeedRoundCalls

C19_Witness ==
    /\ stage = "adaptation"
    /\ seeds = 2
    /\ pc = "seed_labels"
    /\ seed_log = SeedRoundCalls

\* C16: when a client call of a session (start_session or a session-scoped
\* method) has raised, the program has ended with that exception, the failed
\* request is the last one sent, and nothing further can happen: no client
\* or learner call, no new start_session.
C16_FailurePropagates ==
    (fr.status = "raised" /\ fr.op \in SessionOps \cup {"start_session"}) =>
        /\ pc = "crashed"
        /\ err = fr.exc
        /\ req.op = fr.op
        /\ req.outcome \in ExceptionToCheck \cup {"KeyError", "no_labels"}
        /\ ~ENABLED Next

C16_Witness ==
    /\ pc = "crashed"
    /\ fr.op = "request_labels"
    /\ fr.status = "raised"
    /\ err = "KeyError"
    /\ stage = "adaptation"

\* C17: the workflow moves to its next session only from a session whose run
\* has returned after both stages, and every session-scoped request carries
\* the token issued last: no call of an earlier session follows the start
\* of a later one.
C17_SessionsSequential ==
    [][/\ (wf_k' # wf_k /\ wf_k >= 1) =>
             /\ pc = "run_returned"
             /\ Len(stage_log) = 2
             /\ wf_k' = wf_k + 1
             /\ Len(tasks_completed') = wf_k
       /\ (req' # req /\ req'.op \in SessionOps) =>
             req'.headers.session_token = issued']_vars

C17_Witness ==
    /\ wf_k = 2
    /\ issued = 2
    /\ Len(tasks_completed) = 1
    /\ pc = "seed_refresh1"

\* C18: a response without the expected payload or field raises at once: the
\* call has ended with that error in the attempt that received the response,
\* no sleep followed it, and (unless the workflow catches it while it builds
\* its task lists) the program has ended with it.
C18_MalformedNotRetried ==
    req.outcome \in {"KeyError", "empty"} =>
        /\ fr.op = req.op
        /\ fr.status = "raised"
        /\ fr.exc = (IF req.outcome = "empty"
                     THEN "received an empty response from api" ELSE "KeyError")
        /\ Len(fr.sleeps) = fr.attempts - 1
        /\ req.op # "get_task_metadata" => (pc = "crashed" /\ err = fr.exc)

C18_Witness ==
    /\ req.op = "get_all_tasks"
    /\ req.outcome = "empty"
    /\ fr.attempts = 1
    /\ fr.sleeps = <<>>
    /\ pc = "crashed"

\* the places where a checkpoint begins: after the refresh that precedes it
CheckpointHeads == {"init_refresh", "seed_refresh2", "cp_refresh"}

\* C20: the label-request loop body is entered only at the head of a
\* checkpoint and only with a positive budget; with budget 0 the checkpoint
\* goes straight to the submission; and after the body's refresh the program
\* goes on to the submission, never into the body again, whatever budget
\* that refresh reported.
C20_LabelLoopOnce ==
    [][/\ (pc = "cp_refresh_inner" /\ pc' # pc) => pc' \in {"cp_submit", "crashed"}
       /\ (pc = "request_labels" /\ pc' # pc) => pc' \in {"cp_refresh_inner", "crashed"}
       /\ (pc' = "request_labels" /\ pc' # pc) =>
             /\ pc \in CheckpointHeads
             /\ metadata'.budget_left_until_checkpoint > 0
       /\ (pc \in CheckpointHeads /\ pc' = "cp_submit") =>
             metadata'.budget_left_until_checkpoint = 0]_vars

C20_Witness ==
    /\ pc = "cp_refresh_inner"
    /\ fr.op = "request_labels"
    /\ fr.status = "returned"
    /\ metadata.budget_left_until_checkpoint > 0
    /\ cps = 1

(* ------------------------------------------------------------------ *)
(* Checkpoints: predict, submit, refresh                                *)
(* ------------------------------------------------------------------ *)
\* the sites a checkpoint's predict-and-submit is reached from: the head of
\* the checkpoint when the loop is skipped, the refresh inside the loop
\* otherwise
SubmitEntries == CheckpointHeads \cup {"cp_refresh_inner"}

\* C21: every checkpoint, whether its label loop ran or not, reaches its
\* predict-and-submit exactly from the loop's exit and submits once there and
\* nowhere else, the submit is followed by the refresh, the refresh completes
\* the checkpoint, and the loop of the next checkpoint runs exactly when the
\* snapshot that refresh fetched has budget left
C21_CheckpointTail ==
    [][/\ (pc' = "cp_submit" /\ pc # "cp_submit") => pc \in SubmitEntries
       /\ (pc = "cp_submit" /\ pc' # pc) => pc' \in {"cp_refresh", "crashed"}
       /\ (pc = "cp_submit" /\ pc' = "cp_refresh") => submitted' = submitted + 1
       /\ (pc \in {"request_labels", "cp_refresh_inner", "cp_refresh"})
            => submitted' = submitted
       /\ (pc = "cp_refresh" /\ pc' \in {"request_labels", "cp_submit"})
            => /\ cps' = cps + 1 \/ (cps' = 0 /\ stage' # stage)
               /\ (pc' = "request_labels")
                    <=> (metadata'.budget_left_until_checkpoint > 0)]_vars

\* a second checkpoint whose label loop runs on the budget the refresh of the
\* first checkpoint fetched
C21_Witness ==
    /\ pc = "request_labels"
    /\ i = 1 /\ cps = 1
    /\ metadata.budget_left_until_checkpoint > 0

(* ------------------------------------------------------------------ *)
(* The session's snapshot and the service's                             *)
(* ------------------------------------------------------------------ *)
\* the dict without key k, the other pairs in their order
Without(d, k) == SelectSeq(d, LAMBDA pair : pair[1] # k)

\* d[k], "absent" for a missing key
value_of(d, k) ==
    IF has_key(d, k) THEN (CHOOSE pair \in {d[n] : n \in DOMAIN d} : pair[1] = k)[2]
    ELSE "absent"

\* C22: after any refreshes and local writes, every key of the stored
\* snapshot other than budget_left_until_checkpoint holds the value the
\* service returned last, and where the stored snapshot differs from that
\* response its budget_left_until_checkpoint is 0
C22_OnlyBudgetLocal ==
    (r_has /\ r_exc = "") =>
        /\ Without(r_metadata, "budget_left_until_checkpoint")
             = Without(r_response, "budget_left_until_checkpoint")
        /\ r_metadata # r_response
             => value_of(r_metadata, "budget_left_until_checkpoint") = "0"

\* a stored snapshot zeroed locally while the service reported budget 1
C22_Witness ==
    /\ r_has /\ r_exc = ""
    /\ Len(r_response) = 3
    /\ value_of(r_response, "budget_left_until_checkpoint") = "1"
    /\ value_of(r_metadata, "budget_left_until_checkpoint") = "0"

\* C26: at every refresh that returns, the 'did not change' message is logged
\* if and only if the snapshot fetched equals the snapshot the previous fetch
\* returned (the empty dict before the first fetch), date_last_interacted
\* removed from both.
C26_SignalIffServerUnchanged ==
    (r_response # <<>> /\ r_exc = "") =>
        ((r_signals = 1) <=> (del_date(r_prev_response) = del_date(r_response)))

(* ------------------------------------------------------------------ *)
(* The label request of a checkpoint                                    *)
(* ------------------------------------------------------------------ *)
\* C23: the learner names no item to label, and the label request made with
\* that empty list is no error: the step that leaves the label request either
\* has request_labels returned and the checkpoint at the refresh inside the
\* loop with no exception raised, or ends the run with the exception of the
\* HTTP call itself or of fit's precondition on the dataset metadata.
C23_EmptyRequestContinues ==
    [][(most_uncertain_unlabeled_items = <<>> /\ pc = "request_labels" /\ pc' # pc)
         => \/ /\ pc' = "cp_refresh_inner" /\ err' = ""
               /\ fr'.op = "request_labels" /\ fr'.status = "returned"
            \/ /\ pc' = "crashed"
               /\ fr'.op = "request_labels" /\ fr'.status = "raised"
               /\ err' = fr'.exc
            \/ /\ pc' = "crashed"
               /\ fr'.op = "request_labels" /\ fr'.status = "returned"
               /\ dataset_metadata = "{}"
               /\ err' = fit(pair_stage, dataset_metadata)]_vars

\* a checkpoint of stage adaptation after its label request returned
C23_Witness ==
    /\ most_uncertain_unlabeled_items = <<>>
    /\ fr.op = "request_labels" /\ fr.status = "returned"
    /\ pc = "cp_refresh_inner"
    /\ stage = "adaptation"

(* ------------------------------------------------------------------ *)
(* model_wrapper.py: fit and set_stage                                  *)
(* ------------------------------------------------------------------ *)
\* the last call on the object was fit
LastIsFit == mw_calls # <<>> /\ mw_calls[Len(mw_calls)] = "fit"

\* set_stage was called on the object
StageWasSet == \E n \in DOMAIN mw_calls : mw_calls[n] = "set_stage"

\* C24: fit raises if and only if set_stage has not been called before it.
C24_FitFailsIffBeforeSetStage ==
    LastIsFit => ((mw_exc # "") <=> ~StageWasSet)

\* C24, amended: fit raises if and only if pair_stage is '' or
\* dataset_metadata is {} when it is called; that is so before any set_stage.
C24_FitFailsIffUnset ==
    LastIsFit =>
        /\ (mw_exc # "") <=> (mw_pair_stage = "" \/ mw_dataset_metadata = "{}")
        /\ ~StageWasSet => mw_exc # ""

\* fit raised after set_stage was given a stage and an empty dataset metadata
C24_Witness ==
    /\ LastIsFit /\ StageWasSet
    /\ mw_pair_stage = "base" /\ mw_dataset_metadata = "{}"
    /\ mw_exc = "Didn't set current dataset metadata"

(* ------------------------------------------------------------------ *)
(* The session token                                                    *)
(* ------------------------------------------------------------------ *)
\* C25: a Session's token is assigned once, by the start_session call of the
\* constructor, and changes no more while that Session lives (the next
\* Session object starts without one); every session-scoped request is sent
\* with a token assigned, and its headers are exactly the team secret and
\* that token.
C25_TokenAssignedOnce ==
    [][/\ (session_token' # session_token) =>
             \/ /\ session_token = 0
                /\ pc = "start_session" /\ pc' = "init_refresh"
             \/ /\ session_token' = 0
                /\ pc = "run_returned" /\ pc' = "start_session"
       /\ (req' # req /\ req'.op \in SessionOps) =>
             /\ session_token' = session_token
             /\ session_token # 0
             /\ req'.headers = [user_secret |-> team_secret,
                                session_token |-> session_token]]_vars

\* the second session of a workflow submitting predictions under its own token
C25_Witness ==
    /\ wf_k = 2
    /\ session_token = 2
    /\ req.op = "submit_predictions"
    /\ req.headers = [user_secret |-> team_secret, session_token |-> 2]
    /\ pc = "cp_refresh"

(* ------------------------------------------------------------------ *)
(* The two workflow paths                                               *)
(* ------------------------------------------------------------------ *)
\* C27: on either workflow path every finished stage of a session has the
\* cadence of its task's problem type: 0 seed rounds and 8 checkpoints for a
\* machine_translation task, 4 and 4 otherwise.
C27_CadenceByTaskType ==
    (wf_k \in 1..Len(Plan)) =>
        \A n \in 1..Len(stage_log) :
            /\ stage_log[n][2] =
                 (IF ProblemTypeOf(Cur.task) = "machine_translation" THEN 0 ELSE 4)
            /\ stage_log[n][3] =
                 (IF ProblemTypeOf(Cur.task) = "machine_translation" THEN 8 ELSE 4)

(* ------------------------------------------------------------------ *)
(* Submissions of a session                                             *)
(* ------------------------------------------------------------------ *)
\* the submit_predictions calls of a run that returns: 8 in each of 2 stages
SubmitsPerRun == 16

\* C28: when run has returned, the session has made exactly 16
\* submit_predictions calls (retries of a call not counted), whatever its
\* problem type and whatever budgets the service reported; no session makes
\* more.
C28_SixteenSubmits ==
    /\ submitted <= SubmitsPerRun
    /\ pc = "run_returned" => submitted = SubmitsPerRun

\* a machine_translation session whose run returned
C28_Witness ==
    /\ pc = "run_returned"
    /\ problem_type = "machine_translation"
    /\ submitted = SubmitsPerRun
    /\ stage_log = << <<"base", 0, 8>>, <<"adaptation", 0, 8>> >>

(* ------------------------------------------------------------------ *)
(* Termination of Session.run                                           *)
(* ------------------------------------------------------------------ *)
\* the calls of one seed round and of one checkpoint
SeedSites == {"seed_labels", "seed_refresh1", "seed_submit", "seed_refresh2"}
CheckpointSites == {"request_labels", "cp_refresh_inner", "cp_submit", "cp_refresh"}
RunSites == SeedSites \cup CheckpointSites

\* the place of a call in its seed round or checkpoint, in the order of run
SiteIndex(p) ==
    CASE p \in {"seed_labels", "request_labels"} -> 0
      [] p \in {"seed_refresh1", "cp_refresh_inner"} -> 1
      [] p \in {"seed_submit", "cp_submit"} -> 2
      [] OTHER -> 3

\* the rounds one stage can have at most: the seed rounds, then the
\* checkpoints of a machine_translation session
RoundsPerStage == SeedRounds + range_lim("machine_translation")

\* failed attempts of the call the program is at
AttemptIndex ==
    IF fr.status = "running" /\ fr.op = OpAt(pc) /\ Retried(fr.op)
    THEN tries - fr.mtries ELSE 0

\* the place of run's next HTTP attempt in the order stage, round, call,
\* attempt: a number that every attempt of run advances
Progress ==
    LET StageIndex == IF stage = "base" THEN 0 ELSE 1
        RoundIndex == IF pc \in SeedSites THEN i ELSE SeedRounds + i
    IN ((StageIndex * RoundsPerStage + RoundIndex) * 4 + SiteIndex(pc)) * tries
       + AttemptIndex

\* C29: inside run every HTTP attempt, whether it returns, is retried or
\* raises, either ends run or moves it strictly forward in the order of its
\* stages, rounds, calls and tries, and the place is bounded: run ends after
\* at most 2 * RoundsPerStage * 4 * tries attempts, whatever budgets the
\* service reports and however the attempts fail.
C29_RunTerminates ==
    [][(pc \in RunSites) =>
          /\ Progress < 2 * RoundsPerStage * 4 * tries
          /\ (pc' \in RunSites => Progress' > Progress)
          /\ pc' \in RunSites \cup {"crashed", "run_returned"}]_vars

\* the last try of the last refresh of a machine_translation session
C29_Witness ==
    /\ pc = "cp_refresh"
    /\ Progress = 2 * RoundsPerStage * 4 * tries - 1
    /\ fr.status = "running" /\ fr.mtries = 1
    /\ metadata.budget_left_until_checkpoint = 0

(* ------------------------------------------------------------------ *)
(* The workflow's record of completed sessions                          *)
(* ------------------------------------------------------------------ *)
\* sum(self._task_types_completed.values()) over the keys in S
RECURSIVE SumCompleted(_)
SumCompleted(S) ==
    IF S = {} THEN 0
    ELSE LET k == CHOOSE x \in S : TRUE
         IN task_types_completed[k] + SumCompleted(S \ {k})

\* C30: _tasks_completed has one entry per session whose run returned, the
\* _task_types_completed counters add up to the number of entries, and
\* recording a completed session does not raise.
C30_CompletedCounted ==
    /\ Len(tasks_completed) <= wf_k
    /\ SumCompleted(DOMAIN task_types_completed) = Len(tasks_completed)
    /\ ~(pc = "crashed" /\ err = "KeyError" /\ wf_k >= 1 /\ Len(tasks_completed) = wf_k)

(* ------------------------------------------------------------------ *)
(* A session that raises                                                *)
(* ------------------------------------------------------------------ *)
\* the exception came from the workflow's own bookkeeping after run returned
\* (workflow.py line 122), not from the session
RecordingRaised ==
    /\ err = "KeyError"
    /\ Len(stage_log) = 2
    /\ metadata.active = "Complete"

\* C31: when the construction or the run of a session raises, the program has
\* ended: no further call is made, the service has issued no token beyond
\* that session's, and _tasks_completed holds the sessions before it and not
\* the failed one.
C31_FailedSessionStopsWorkflow ==
    (err # "" /\ wf_k >= 1 /\ ~RecordingRaised) =>
        /\ pc = "crashed"
        /\ ~ENABLED Next
        /\ issued <= wf_k
        /\ Len(tasks_completed) = wf_k - 1
        /\ \A n \in DOMAIN tasks_completed :
               tasks_completed[n] # <<Cur.task, Cur.dataset_config>>

\* the second of four sessions raised: two tasks were never started
C31_Witness ==
    /\ pc = "crashed"
    /\ wf_k = 2 /\ Len(Plan) = 4
    /\ issued = 2
    /\ Len(tasks_completed) = 1
    /\ ~RecordingRaised

(* ------------------------------------------------------------------ *)
(* The retry state of a call                                            *)
(* ------------------------------------------------------------------ *)
\* backoff ** n
RECURSIVE BackoffPower(_)
BackoffPower(n) == IF n = 0 THEN 1 ELSE backoff * BackoffPower(n - 1)

\* C32: whatever the number of transient failures of the calls that ended
\* before it, a call of a wrapped method has used exactly as many of its 4
\* tries as it has slept itself, its first delay is 3 and its next delay is
\* 3 * 2 ** (its own sleeps), and it makes at most 4 attempts.
C32_RetryStatePerCall ==
    (fr.op \in RetriedOps) =>
        /\ fr.mtries = tries - Len(fr.sleeps)
        /\ fr.mdelay = delay * BackoffPower(Len(fr.sleeps))
        /\ fr.sleeps # <<>> => fr.sleeps[1] = delay
        /\ fr.attempts <= tries
        /\ fr.attempts \in {Len(fr.sleeps), Len(fr.sleeps) + 1}

\* after calls that had three transient failures between them, a call of
\* get_session_metadata that slept 3, 6, 12 itself and returned from its 4th
\* attempt
C32_Witness ==
    /\ rt_failures = 3 + 3
    /\ fr.op = "get_session_metadata"
    /\ fr.status = "returned"
    /\ fr.attempts = tries
    /\ fr.sleeps = <<delay, delay * backoff, delay * backoff * backoff>>

====
